---------------------------- MODULE Spec2Model ----------------------------
(***************************************************************************)
(* Model of backend/agents/doc_processor_agent.py: the PDF table           *)
(* extraction pipeline DocProcessorAgent.process with its three            *)
(* strategies (pdfplumber, PyMuPDF, OCR) and the quality gate              *)
(* contains_garbage_text.                                                  *)
(*                                                                         *)
(* A string (a cell, a word) is a sequence of one-character strings; the   *)
(* Unicode replacement character U+FFFD is the character "FFFD".  A table  *)
(* is a sequence of rows, a row a sequence of cells.                       *)
(***************************************************************************)
EXTENDS Integers, Sequences, FiniteSets, TLC

VARIABLES
    pc,         \* position in process / in the stand-alone function specs
    file,       \* what file_path points at: "pdf", "missing", "unsupported"
    pages,      \* the document's pages, each the words PyMuPDF reports
    tables,     \* local variable `tables` of process
    status,     \* local variable `extraction_status` of process
    result,     \* the dictionary process returns (its json part)
    calls,      \* history: the strategies invoked so far, in order
    outs,       \* history: what each strategy returned
    raisedIn,   \* history: strategies whose backend library raised
    handles,    \* document handles currently open
    gateIn,     \* argument of a stand-alone contains_garbage_text call
    gateOut,    \* its return value
    ocrIn,      \* ocr_data of the page of a stand-alone OCR extraction
    ocrOut,     \* what that extraction computed
    layIn,      \* words of the page of a stand-alone layout extraction
    layOut      \* what that extraction computed

\* the variables of the stand-alone layout and OCR extractions
fn == <<ocrIn, ocrOut, layIn, layOut>>

vars == <<pc, file, pages, tables, status, result, calls, outs, raisedIn,
          handles, gateIn, gateOut, ocrIn, ocrOut, layIn, layOut>>

-----------------------------------------------------------------------------
(* Bounds of the model *)

MaxPages == 2       \* pages per document
MaxVecTables == 1   \* tables pdfplumber reports per document
MaxCells == 2       \* cells per row given to the stand-alone gate
MaxCtx == 1         \* tables around the examined table in the gate inputs

-----------------------------------------------------------------------------
(* Characters and Python's string predicates *)

Lower == {"a","b","c","d","e","f","g","h","i","j","k","l","m",
          "n","o","p","q","r","s","t","u","v","w","x","y","z"}
Upper == {"A","B","C","D","E","F","G","H","I","J","K","L","M",
          "N","O","P","Q","R","S","T","U","V","W","X","Y","Z"}
Digits == {"0","1","2","3","4","5","6","7","8","9"}
\* letters outside A-Z, a-z: str.isalnum() is True, [A-Za-z] does not match
NonAsciiLetters == {"e_acute"}
Whitespace == {" "}
FFFD == "FFFD"

\* re character class [A-Za-z]
IsAsciiLetter(ch) == ch \in Lower \cup Upper

\* str.isalnum() on one character
isalnum(ch) == ch \in Lower \cup Upper \cup Digits \cup NonAsciiLetters

\* `pat in s` for strings
Contains(s, pat) ==
    \E i \in 1..(Len(s) - Len(pat) + 1) : SubSeq(s, i, i + Len(pat) - 1) = pat

\* str.strip()
strip(s) ==
    LET keep == {i \in 1..Len(s) : s[i] \notin Whitespace}
    IN  IF keep = {} THEN <<>>
        ELSE SubSeq(s, CHOOSE i \in keep : \A j \in keep : i <= j,
                       CHOOSE i \in keep : \A j \in keep : i >= j)

\* a list comprehension: the sequence with every element worked out
list(f) == SubSeq(f, 1, Len(f))

\* " ".join(words)
RECURSIVE join(_)
join(ws) ==
    IF ws = <<>> THEN <<>>
    ELSE IF Len(ws) = 1 THEN ws[1]
    ELSE ws[1] \o <<" ">> \o join(Tail(ws))

CidMarker == <<"(", "c", "i", "d", ":">>

-----------------------------------------------------------------------------
(* contains_garbage_text *)

non_alpha_threshold_num == 1    \* non_alpha_threshold = 0.5 = 1/2
non_alpha_threshold_den == 2
min_wordlike_cells == 2

\* line 147 without the test for "\uFFFD"
HasArtifactCidOnly(cell) == Contains(cell, CidMarker)

\* line 147: "(cid:" in cell or "\uFFFD" in cell
HasArtifact(cell) == Contains(cell, CidMarker) \/ Contains(cell, <<FFFD>>)

\* line 152: sum(1 for c in cell if not c.isalnum())
non_alpha(cell) == Cardinality({i \in 1..Len(cell) : ~isalnum(cell[i])})

\* line 153: (non_alpha / len(cell)) > non_alpha_threshold
HighNonAlnumRatio(cell) ==
    non_alpha(cell) * non_alpha_threshold_den > non_alpha_threshold_num * Len(cell)

\* line 157 with the pattern [A-Za-z] in place of [A-Za-z]{2,}
MatchesOneLetter(cell) ==
    \E i \in 1..Len(cell) : IsAsciiLetter(cell[i])

\* line 157: re.search(r"[A-Za-z]{2,}", cell)
MatchesTwoLetters(cell) ==
    \E i \in 1..(Len(cell) - 1) : IsAsciiLetter(cell[i]) /\ IsAsciiLetter(cell[i+1])

\* lines 151-158: does this cell add one to wordlike_cells
CountsWordlike(cell) ==
    /\ cell # <<>>
    /\ ~HighNonAlnumRatio(cell)
    /\ MatchesTwoLetters(cell)

\* lines 145-158: the cell loop of one row; -1 stands for `return True` at
\* line 149, otherwise the value of wordlike_cells after the loop
RECURSIVE CellLoop(_, _, _)
CellLoop(row, i, wordlike_cells) ==
    IF i > Len(row) THEN wordlike_cells
    ELSE IF HasArtifact(row[i]) THEN -1
    ELSE CellLoop(row, i + 1,
                  IF CountsWordlike(row[i]) THEN wordlike_cells + 1
                  ELSE wordlike_cells)

\* lines 143-161: the row loop of one table; TRUE stands for `return True`
RECURSIVE RowLoop(_, _)
RowLoop(table, r) ==
    IF r > Len(table) THEN FALSE
    ELSE LET n == CellLoop(table[r], 1, 0)
         IN  IF n = -1 THEN TRUE
             ELSE IF n < min_wordlike_cells THEN TRUE
             ELSE RowLoop(table, r + 1)

RECURSIVE TableLoop(_, _)
TableLoop(tbls, t) ==
    IF t > Len(tbls) THEN FALSE
    ELSE IF RowLoop(tbls[t], 1) THEN TRUE
    ELSE TableLoop(tbls, t + 1)

\* lines 142-162
contains_garbage_text(tbls) == TableLoop(tbls, 1)

-----------------------------------------------------------------------------
(* extract_tables_with_pdfplumber *)

\* a null cell of page.extract_tables()
NoneCell == <<"<None>">>

\* line 86: cell.strip() if cell else ""
CleanCell(cell) == IF cell = NoneCell \/ cell = <<>> THEN <<>> ELSE strip(cell)

\* lines 85-88
cleaned_table(table) ==
    list([r \in 1..Len(table) |->
            list([c \in 1..Len(table[r]) |-> CleanCell(table[r][c])])])

\* lines 78-94; raw is the concatenation over the pages of page.extract_tables(),
\* raises says that pdfplumber.open or extract_tables raised
extract_tables_with_pdfplumber(raises, raw) ==
    IF raises THEN <<>>
    ELSE list([t \in 1..Len(raw) |-> cleaned_table(raw[t])])

-----------------------------------------------------------------------------
(* extract_tables_with_pymupdf *)
(* A word is [x0, y0, text]; x0 and y0 are in hundredths of a point.       *)

\* round(y0, 1), in tenths of a point.  A y0 halfway between two tenths is
\* rounded by Python according to its binary value; the positions used below
\* are never halfway.
Round1(y0) ==
    LET q == y0 \div 10
        r == y0 % 10
    IN  IF r < 5 THEN q
        ELSE IF r > 5 THEN q + 1
        ELSE IF q % 2 = 0 THEN q ELSE q + 1

\* line 103: the sort key (round(w[1], 1), w[0]), compared as Python tuples
WordKeyLess(a, b) ==
    \/ Round1(a.y0) < Round1(b.y0)
    \/ Round1(a.y0) = Round1(b.y0) /\ a.x0 < b.x0

\* insert w after every element that is not greater: list.sort is stable
RECURSIVE InsertWord(_, _)
InsertWord(sorted, w) ==
    IF sorted = <<>> THEN <<w>>
    ELSE IF WordKeyLess(w, sorted[1]) THEN <<w>> \o sorted
    ELSE <<sorted[1]>> \o InsertWord(Tail(sorted), w)

\* line 103: words.sort(key=...)
RECURSIVE SortWords(_)
SortWords(ws) ==
    IF ws = <<>> THEN <<>>
    ELSE InsertWord(SortWords(SubSeq(ws, 1, Len(ws) - 1)), ws[Len(ws)])

new_row_threshold == 15     \* 1.5 points, in tenths

\* lines 109-121: the loop over the sorted words from index i on; current_y
\* is None exactly when i = 1
RECURSIVE RowLoopWords(_, _, _, _, _)
RowLoopWords(ws, i, rows, current_y, current_row) ==
    IF i > Len(ws) THEN [rows |-> rows, current_row |-> current_row]
    ELSE LET y_key == Round1(ws[i].y0)
             cy == IF i = 1 THEN y_key ELSE current_y
             d == IF y_key >= cy THEN y_key - cy ELSE cy - y_key
         IN  IF d > new_row_threshold
             THEN RowLoopWords(ws, i + 1, Append(rows, current_row), y_key,
                               <<ws[i].text>>)
             ELSE RowLoopWords(ws, i + 1, rows, cy, Append(current_row, ws[i].text))

\* lines 102-124 without lines 123-124: the last row is never appended
PageRowsLastRowLost(words) ==
    LET l == RowLoopWords(SortWords(words), 1, <<>>, 0, <<>>)
    IN  l.rows

\* lines 102-124: the rows of one page
PageRows(words) ==
    LET l == RowLoopWords(SortWords(words), 1, <<>>, 0, <<>>)
    IN  IF l.current_row # <<>> THEN Append(l.rows, l.current_row) ELSE l.rows

\* lines 99-128, when fitz.open and get_text do not raise: line 126 appends
\* one table per page
extract_tables_with_pymupdf(doc) ==
    list([p \in 1..Len(doc) |-> PageRows(doc[p])])

-----------------------------------------------------------------------------
(* extract_tables_with_ocr *)
(* One page of pytesseract.image_to_data is a sequence of entries          *)
(* [text, top, left]; top and left are pixels.                             *)

y_band == 10        \* line 185: round(y / 10.0) * 10
min_cols == 2       \* line 197
max_cols == 8       \* line 197
last_bound_pad == 100   \* line 213

\* line 185: round(y / 10.0) * 10; Python rounds a tie to the even integer
y_rounded(y) ==
    LET q == y \div y_band
        r == y % y_band
    IN  y_band * (IF 2 * r < y_band THEN q
                  ELSE IF 2 * r > y_band THEN q + 1
                  ELSE IF q % 2 = 0 THEN q ELSE q + 1)

\* lines 180-191: the entries that survive strip(), as [word, x, y]
kept_words(data) ==
    LET keep == SelectSeq(data, LAMBDA e : strip(e.text) # <<>>)
    IN  list([i \in 1..Len(keep) |->
                [word |-> strip(keep[i].text), x |-> keep[i].left,
                 y |-> y_rounded(keep[i].top)]])

\* row_buckets[y]: the words of one band, in reading order of ocr_data
row_bucket(ws, y) ==
    LET sel == SelectSeq(ws, LAMBDA w : w.y = y)
    IN  list([i \in 1..Len(sel) |-> [word |-> sel[i].word, x |-> sel[i].x]])

\* line 193: sorted(row_buckets.keys())
RECURSIVE sorted_set(_)
sorted_set(S) ==
    IF S = {} THEN <<>>
    ELSE LET m == CHOOSE a \in S : \A b \in S : a <= b
         IN  <<m>> \o sorted_set(S \ {m})

Max2(a, b) == IF a >= b THEN a ELSE b
Min2(a, b) == IF a <= b THEN a ELSE b

\* lines 196-197 without the upper clamp
n_colsNoUpperClamp(ws) ==
    LET ys == {ws[i].y : i \in 1..Len(ws)}
        lens == {Len(row_bucket(ws, y)) : y \in ys}
        len_max_row == IF ys = {} THEN 0
                       ELSE CHOOSE n \in lens : \A k \in lens : n >= k
    IN  Max2(min_cols, len_max_row)

\* lines 196-197
n_cols(ws) ==
    LET ys == {ws[i].y : i \in 1..Len(ws)}
        lens == {Len(row_bucket(ws, y)) : y \in ys}
        len_max_row == IF ys = {} THEN 0
                       ELSE CHOOSE n \in lens : \A k \in lens : n >= k
    IN  Min2(max_cols, Max2(min_cols, len_max_row))

\* line 202: sorted(row, key=lambda w: w["x"]), stable
RECURSIVE InsertByX(_, _)
InsertByX(sorted, w) ==
    IF sorted = <<>> THEN <<w>>
    ELSE IF w.x < sorted[1].x THEN <<w>> \o sorted
    ELSE <<sorted[1]>> \o InsertByX(Tail(sorted), w)

RECURSIVE row_sorted(_)
row_sorted(row) ==
    IF row = <<>> THEN <<>>
    ELSE InsertByX(row_sorted(SubSeq(row, 1, Len(row) - 1)), row[Len(row)])

\* lines 206-213 without the final bound of line 213
col_boundsNoLastBound(rs, n) ==
    IF Len(rs) >= n
    THEN LET min_x == rs[1].x
             max_x == rs[Len(rs)].x
         IN  list([i \in 1..(n + 1) |-> n * min_x + (i - 1) * (max_x - min_x)])
    ELSE list([i \in 1..Len(rs) |-> n * rs[i].x])

\* lines 206-213: col_bounds, every bound multiplied by n so that
\* min_x + i * (max_x - min_x) / n stays an integer; index 1 is col_bounds[0]
col_bounds(rs, n) ==
    IF Len(rs) >= n
    THEN LET min_x == rs[1].x
             max_x == rs[Len(rs)].x
         IN  list([i \in 1..(n + 1) |-> n * min_x + (i - 1) * (max_x - min_x)])
    ELSE list([i \in 1..(Len(rs) + 1) |->
                IF i <= Len(rs) THEN n * rs[i].x
                ELSE n * (rs[Len(rs)].x + last_bound_pad)])

IndexError == -1

\* lines 217-221: the search for col_idx from i on (i counts from 0 as in
\* the code); an index past the end of col_bounds raises IndexError
RECURSIVE col_search(_, _, _, _)
col_search(x, bounds, n, i) ==
    IF i >= n THEN 0
    ELSE IF i + 1 > Len(bounds) THEN IndexError
    ELSE IF n * x >= bounds[i + 1]
         THEN IF i + 2 > Len(bounds) THEN IndexError
              ELSE IF n * x < bounds[i + 2] THEN i
              ELSE col_search(x, bounds, n, i + 1)
         ELSE col_search(x, bounds, n, i + 1)

\* lines 215-222: columns[c] for c in 0..n-1, given as a function on 1..n
columns(rs, n) ==
    LET b == col_bounds(rs, n)
    IN  list([c \in 1..n |->
            LET sel == SelectSeq(rs, LAMBDA w : col_search(w.x, b, n, 0) = c - 1)
            IN  list([i \in 1..Len(sel) |-> sel[i].word])])

\* does the column search of some word of the row raise
row_raises(rs, n) ==
    \E i \in 1..Len(rs) : col_search(rs[i].x, col_bounds(rs, n), n, 0) = IndexError

\* line 224
clean_row(rs, n) ==
    LET cols == columns(rs, n)
        used == SelectSeq(cols, LAMBDA col : col # <<>>)
    IN  list([c \in 1..Len(used) |-> strip(join(used[c]))])

\* lines 199-226: page_table
page_table(data) ==
    LET ws == kept_words(data)
        n == n_cols(ws)
        ys == sorted_set({ws[i].y : i \in 1..Len(ws)})
        all_rows == list([k \in 1..Len(ys) |->
                            clean_row(row_sorted(row_bucket(ws, ys[k])), n)])
    IN  SelectSeq(all_rows, LAMBDA r : \E c \in 1..Len(r) : r[c] # <<>>)

page_raises(data) ==
    LET ws == kept_words(data)
        n == n_cols(ws)
    IN  \E y \in {ws[i].y : i \in 1..Len(ws)} :
            row_raises(row_sorted(row_bucket(ws, y)), n)

\* lines 173-232; images is one ocr_data per page, raises says that
\* convert_from_path or image_to_data raised
extract_tables_with_ocr(raises, images) ==
    IF raises \/ \E p \in 1..Len(images) : page_raises(images[p]) THEN <<>>
    ELSE SelectSeq(list([p \in 1..Len(images) |-> page_table(images[p])]),
                   LAMBDA t : t # <<>>)

-----------------------------------------------------------------------------
(* Inputs: sample strings, pages and backend outputs *)

SeqsUpTo(S, n) == UNION {[1..k -> S] : k \in 0..n}

Word1 == <<"a", "b">>                               \* "ab"
Word2 == <<"c", "d">>                               \* "cd"
Number == <<"8", ",", "2", "2", "3">>               \* "8,223"
CidText == <<"(", "c", "i", "d", ":", "1", ")">>    \* "(cid:1)"
ReplText == <<"a", "b", FFFD>>                      \* "ab\uFFFD"

\* pages as PyMuPDF's get_text("words") reports them (reading order)
BlankPage == <<>>
CleanPage ==
    << [x0 |-> 5000, y0 |-> 1000, text |-> Word2],
       [x0 |-> 1000, y0 |-> 1004, text |-> Word1],
       [x0 |-> 1000, y0 |-> 3000, text |-> Word1],
       [x0 |-> 5000, y0 |-> 3000, text |-> Word2] >>
NumericPage ==
    << [x0 |-> 1000, y0 |-> 1000, text |-> Word1],
       [x0 |-> 5000, y0 |-> 1000, text |-> Number] >>
CidPage ==
    << [x0 |-> 1000, y0 |-> 1000, text |-> Word1],
       [x0 |-> 3000, y0 |-> 1000, text |-> Word2],
       [x0 |-> 5000, y0 |-> 1000, text |-> CidText] >>
PagePool == {BlankPage, CleanPage, NumericPage, CidPage}
Documents == SeqsUpTo(PagePool, MaxPages) \ {<<>>}

\* tables as pdfplumber's page.extract_tables() reports them
RawClean == << <<Word1, <<" ">> \o Word2 \o <<" ">>, Number>>, <<Word1, Word2, NoneCell>> >>
RawCid == << <<Word1, Word2>>, <<Word1, Word2, CidText>> >>
RawRepl == << <<Word1, Word2, ReplText>> >>
RawTablePool == {RawClean, RawCid, RawRepl}
RawTableLists == SeqsUpTo(RawTablePool, MaxVecTables)

\* one page of pytesseract.image_to_data
OcrBlank == << [text |-> <<>>, top |-> 0, left |-> 0],
               [text |-> <<" ">>, top |-> 40, left |-> 10] >>
OcrLines ==
    << [text |-> <<>>, top |-> 0, left |-> 0],
       [text |-> Word1, top |-> 98, left |-> 100],
       [text |-> Word2, top |-> 102, left |-> 400],
       [text |-> Number, top |-> 200, left |-> 400],
       [text |-> Word1, top |-> 201, left |-> 100] >>
OcrCid ==
    << [text |-> Word1, top |-> 100, left |-> 100],
       [text |-> CidText, top |-> 100, left |-> 400] >>
OcrPool == {OcrBlank, OcrLines, OcrCid}

Strategies == {"pdfplumber", "fitz", "ocr"}
FAILED_ALL_METHODS == "FAILED_ALL_METHODS"
None == "None"
NoOut == [returned |-> None]
NoResult == [tables |-> <<>>, table_count |-> -1, extraction_status |-> None]

-----------------------------------------------------------------------------
(* DocProcessorAgent.process *)

\* lines 38 and 46 with the `not` dropped
AcceptedInverted(t) == t # <<>> /\ contains_garbage_text(t)

\* lines 38 and 46 without the quality gate
AcceptedNoGate(t) == t # <<>>

\* lines 38 and 46: tables and not contains_garbage_text(tables)
Accepted(t) == t # <<>> /\ ~contains_garbage_text(t)

\* lines 54-57 with the else branch lost
OcrStatusAlwaysOcr(t) == "ocr"

\* lines 54-57
OcrStatus(t) == IF t # <<>> THEN "ocr" ELSE FAILED_ALL_METHODS

Init ==
    /\ pc = "try_vector"
    /\ file \in {"pdf", "missing", "unsupported"}
    /\ pages \in IF file = "missing" THEN {<<>>} ELSE Documents
    /\ tables = <<>>
    /\ status = None
    /\ result = NoResult
    /\ calls = <<>>
    /\ outs = [s \in Strategies |-> <<>>]
    /\ raisedIn = {}
    /\ handles = {}
    /\ gateIn = <<>>
    /\ gateOut = FALSE
    /\ ocrIn = <<>>
    /\ ocrOut = NoOut
    /\ layIn = <<>>
    /\ layOut = NoOut

\* lines 36-44: the pdfplumber strategy and the branch on its output.  The
\* `with` statement of line 81 closes the handle on every exit.
TryVector(raises, raw) ==
    /\ pc = "try_vector"
    /\ file # "pdf" => raises
    /\ LET t == extract_tables_with_pdfplumber(raises, raw)
       IN  /\ tables' = t
           /\ outs' = [outs EXCEPT !["pdfplumber"] = t]
           /\ status' = IF Accepted(t) THEN "pdfplumber" ELSE status
           /\ pc' = IF Accepted(t) THEN "return" ELSE "try_layout"
    /\ calls' = Append(calls, "pdfplumber")
    /\ raisedIn' = IF raises THEN raisedIn \cup {"pdfplumber"} ELSE raisedIn
    /\ handles' = (handles \cup {"pdfplumber"}) \ {"pdfplumber"}
    /\ UNCHANGED <<file, pages, result, gateIn, gateOut, fn>>

\* lines 45-52 when fitz.open (line 98) raises: nothing catches it
TryLayoutRaises ==
    /\ pc = "try_layout"
    /\ pc' = "raised"
    /\ calls' = Append(calls, "fitz")
    /\ raisedIn' = raisedIn \cup {"fitz"}
    /\ UNCHANGED <<file, pages, tables, status, result, outs, handles,
                   gateIn, gateOut, fn>>

\* lines 45-52: the PyMuPDF strategy and the branch on its output.  The
\* document of line 98 is never closed by the function: whether its
\* finalizer has run by the time the function returns is up to the runtime.
TryLayout(finalized) ==
    /\ pc = "try_layout"
    /\ file # "missing"
    /\ LET t == extract_tables_with_pymupdf(pages)
       IN  /\ tables' = t
           /\ outs' = [outs EXCEPT !["fitz"] = t]
           /\ status' = IF Accepted(t) THEN "fitz" ELSE status
           /\ pc' = IF Accepted(t) THEN "return" ELSE "try_ocr"
    /\ calls' = Append(calls, "fitz")
    /\ handles' = IF finalized THEN handles ELSE handles \cup {"fitz"}
    /\ UNCHANGED <<file, pages, result, raisedIn, gateIn, gateOut, fn>>

\* lines 53-57: the OCR strategy and the branch on its output
TryOcr(raises, images) ==
    /\ pc = "try_ocr"
    /\ file # "pdf" => raises
    /\ LET t == extract_tables_with_ocr(raises, images)
       IN  /\ tables' = t
           /\ outs' = [outs EXCEPT !["ocr"] = t]
           /\ status' = OcrStatus(t)
    /\ pc' = "return"
    /\ calls' = Append(calls, "ocr")
    /\ raisedIn' = IF raises THEN raisedIn \cup {"ocr"} ELSE raisedIn
    /\ UNCHANGED <<file, pages, result, handles, gateIn, gateOut, fn>>

\* lines 58-73: the dictionary returned
Return ==
    /\ pc = "return"
    /\ result' = [tables |-> tables, table_count |-> Len(tables),
                  extraction_status |-> status]
    /\ pc' = "done"
    /\ UNCHANGED <<file, pages, tables, status, calls, outs, raisedIn,
                   handles, gateIn, gateOut, ocrIn, ocrOut, layIn, layOut>>

Next ==
    \/ \E raises \in BOOLEAN :
         \E raw \in IF raises THEN {<<>>} ELSE RawTableLists :
            TryVector(raises, raw)
    \/ TryLayoutRaises
    \/ \E finalized \in BOOLEAN : TryLayout(finalized)
    \/ \E raises \in BOOLEAN :
         \E images \in IF raises THEN {<<>>} ELSE [1..Len(pages) -> OcrPool] :
            TryOcr(raises, images)
    \/ Return

Spec == Init /\ [][Next]_vars

-----------------------------------------------------------------------------
(* The quality gate called on its own *)

GoodRow == <<Word1, Word2>>

GateCells ==
    { <<>>, Word1, <<"A", "b">>, <<"a">>, <<"a", "1", "b">>, Number,
      <<"a", "b", ",", ",">>, <<"a", "b", ",", ",", ",">>,
      CidText, <<"c", "i", "d", ":">>, <<FFFD>>,
      <<"e_acute", "e_acute">> }
GateRows == SeqsUpTo(GateCells, MaxCells)
FocusTables ==
    {<<r>> : r \in GateRows} \cup {<<GoodRow, r>> : r \in GateRows}
        \cup {<<r, GoodRow>> : r \in GateRows}
CtxTables == {<<>>, <<GoodRow>>}
Contexts == SeqsUpTo(CtxTables, MaxCtx)
GateInputs ==
    Contexts \cup
    { SubSeq(c, 1, k) \o <<f>> \o SubSeq(c, k + 1, Len(c)) :
        <<c, k, f>> \in { x \in Contexts \X (0..MaxCtx) \X FocusTables :
                            x[2] <= Len(x[1]) } }

InitGate ==
    /\ pc = "gate_call"
    /\ gateIn \in GateInputs
    /\ gateOut = FALSE
    /\ ocrIn = <<>>
    /\ ocrOut = NoOut
    /\ layIn = <<>>
    /\ layOut = NoOut
    /\ file = "pdf"
    /\ pages = <<>>
    /\ tables = <<>>
    /\ status = None
    /\ result = NoResult
    /\ calls = <<>>
    /\ outs = [s \in Strategies |-> <<>>]
    /\ raisedIn = {}
    /\ handles = {}

\* one call contains_garbage_text(gateIn)
CallGate ==
    /\ pc = "gate_call"
    /\ gateOut' = contains_garbage_text(gateIn)
    /\ pc' = "gate_done"
    /\ UNCHANGED <<file, pages, tables, status, result, calls, outs, raisedIn,
                   handles, gateIn, fn>>

NextGate == CallGate

SpecGate == InitGate /\ [][NextGate]_vars

-----------------------------------------------------------------------------
(* extract_tables_with_ocr called on its own, on a one-page document *)

MaxRowWords == 9    \* words in a row of the dense sample pages
MaxFocusWords == 3  \* words in the row whose positions are enumerated

\* lines 215-222: the col_idx of every word of the sorted row
col_idx(rs, n) ==
    LET b == col_bounds(rs, n)
    IN  list([i \in 1..Len(rs) |-> col_search(rs[i].x, b, n, 0)])

\* lines 176-228: what the loop body computes for one page; rows are in the
\* order of sorted_y
ocr_page(data) ==
    LET ws == kept_words(data)
        n == n_cols(ws)
        ys == sorted_set({ws[i].y : i \in 1..Len(ws)})
    IN  [ n_cols |-> n,
          rows |-> list([k \in 1..Len(ys) |->
                      LET rs == row_sorted(row_bucket(ws, ys[k]))
                      IN  [ row_sorted |-> rs,
                            col_bounds |-> col_bounds(rs, n),
                            col_idx |-> col_idx(rs, n),
                            clean_row |-> clean_row(rs, n) ]]),
          raises |-> page_raises(data),
          returned |-> extract_tables_with_ocr(FALSE, <<data>>) ]

\* the entry pytesseract reports for the page itself: no text
OcrHeader == << [text |-> <<>>, top |-> 0, left |-> 0] >>

\* k words of one line, 120 pixels apart, tops within the line's band
OcrDenseRow(k, top) ==
    [i \in 1..k |-> [text |-> Word1, left |-> 120 * i,
                     top |-> IF i % 2 = 0 THEN top + 2 ELSE top - 2]]

OcrDensePages ==
    { OcrHeader \o OcrDenseRow(k, 100) \o OcrDenseRow(j, 200) :
        <<k, j>> \in (0..MaxRowWords) \X (0..MaxRowWords) }

\* sample x positions of the enumerated row, with room for equal positions
OcrXPool == {100, 250, 400}

OcrFocusRows ==
    { [i \in 1..k |-> [text |-> IF i % 2 = 0 THEN Word2 ELSE Word1,
                       left |-> xs[i], top |-> 100]] :
        <<k, xs>> \in { y \in (1..MaxFocusWords) \X SeqsUpTo(OcrXPool, MaxFocusWords) :
                          Len(y[2]) = y[1] } }

\* the rest of the page around the enumerated row: nothing, or a line of
\* four words
OcrContextRows == {<<>>, OcrDenseRow(4, 300)}

OcrFocusPages ==
    { OcrHeader \o f \o c : <<f, c>> \in OcrFocusRows \X OcrContextRows }

OcrPageInputs == OcrDensePages \cup OcrFocusPages

InitOcr ==
    /\ pc = "ocr_call"
    /\ ocrIn \in OcrPageInputs
    /\ ocrOut = NoOut
    /\ layIn = <<>>
    /\ layOut = NoOut
    /\ gateIn = <<>>
    /\ gateOut = FALSE
    /\ file = "pdf"
    /\ pages = <<>>
    /\ tables = <<>>
    /\ status = None
    /\ result = NoResult
    /\ calls = <<>>
    /\ outs = [s \in Strategies |-> <<>>]
    /\ raisedIn = {}
    /\ handles = {}

\* one call extract_tables_with_ocr on a document whose only page gives ocrIn
CallOcr ==
    /\ pc = "ocr_call"
    /\ ocrOut' = ocr_page(ocrIn)
    /\ pc' = "ocr_done"
    /\ UNCHANGED <<file, pages, tables, status, result, calls, outs, raisedIn,
                   handles, gateIn, gateOut, ocrIn, layIn, layOut>>

NextOcr == CallOcr

SpecOcr == InitOcr /\ [][NextOcr]_vars

-----------------------------------------------------------------------------
(* extract_tables_with_pymupdf called on its own *)

MaxWords == 3       \* words on the page whose positions are enumerated

\* distinct words, so that a word of a row names one word of the page
LayoutTexts ==
    << <<"a", "b">>, <<"c", "d">>, <<"e", "f">>, <<"g", "h">>, <<"i", "j">> >>

\* sample positions in hundredths of a point: two columns; lines 0.3, 1.6
\* and 3.0 points below the first, none of them on a rounding tie
LayoutXPool == {1000, 5000}
LayoutYPool == {1000, 1030, 1160, 1300}

LayoutFocusPages ==
    { [i \in 1..Len(ps) |-> [x0 |-> ps[i][1], y0 |-> ps[i][2],
                             text |-> LayoutTexts[i]]] :
        ps \in SeqsUpTo(LayoutXPool \X LayoutYPool, MaxWords) }

\* a page of two words on one line, in reading order
LayoutContextPage ==
    << [x0 |-> 1000, y0 |-> 2000, text |-> <<"w", "x">>],
       [x0 |-> 3000, y0 |-> 2004, text |-> <<"y", "z">>] >>

\* the pages before the enumerated page
LayoutContexts == {<<>>, <<BlankPage>>, <<LayoutContextPage>>}

LayoutDocuments ==
    { c \o <<f>> : <<c, f>> \in LayoutContexts \X LayoutFocusPages }

InitLayout ==
    /\ pc = "layout_call"
    /\ layIn \in LayoutDocuments
    /\ layOut = NoOut
    /\ ocrIn = <<>>
    /\ ocrOut = NoOut
    /\ gateIn = <<>>
    /\ gateOut = FALSE
    /\ file = "pdf"
    /\ pages = <<>>
    /\ tables = <<>>
    /\ status = None
    /\ result = NoResult
    /\ calls = <<>>
    /\ outs = [s \in Strategies |-> <<>>]
    /\ raisedIn = {}
    /\ handles = {}

\* one call extract_tables_with_pymupdf on the document layIn
CallLayout ==
    /\ pc = "layout_call"
    /\ layOut' = [returned |-> extract_tables_with_pymupdf(layIn)]
    /\ pc' = "layout_done"
    /\ UNCHANGED <<file, pages, tables, status, result, calls, outs, raisedIn,
                   handles, gateIn, gateOut, ocrIn, ocrOut, layIn>>

NextLayout == CallLayout

SpecLayout == InitLayout /\ [][NextLayout]_vars

-----------------------------------------------------------------------------
(* Claims *)

EmptyOrGarbage(t) == t = <<>> \/ contains_garbage_text(t)

Cells(tbls) ==
    UNION { UNION { {tbls[t][r][c] : c \in 1..Len(tbls[t][r])} :
                    r \in 1..Len(tbls[t]) } : t \in 1..Len(tbls) }

ArtifactCell(cell) == Contains(cell, CidMarker) \/ Contains(cell, <<FFFD>>)

\* C1: the strategies are invoked in the order pdfplumber, fitz, ocr, each at
\* most once; fitz only after pdfplumber returned an empty or garbage list,
\* ocr only after both pdfplumber and fitz returned an empty or garbage list.
C1_FallbackOrder ==
    /\ \E n \in 0..3 : calls = SubSeq(<<"pdfplumber", "fitz", "ocr">>, 1, n)
    /\ Len(calls) >= 2 => EmptyOrGarbage(outs["pdfplumber"])
    /\ Len(calls) >= 3 =>
          /\ "fitz" \notin raisedIn
          /\ EmptyOrGarbage(outs["pdfplumber"])
          /\ EmptyOrGarbage(outs["fitz"])

C1_Witness ==
    /\ pc = "done"
    /\ calls = <<"pdfplumber", "fitz", "ocr">>
    /\ outs["pdfplumber"] # <<>>
    /\ outs["fitz"] # <<>>
    /\ outs["ocr"] # <<>>

C2_Expected ==
    LET V == outs["pdfplumber"]
        L == outs["fitz"]
        O == outs["ocr"]
    IN  IF V # <<>> /\ ~contains_garbage_text(V) THEN <<V, "pdfplumber">>
        ELSE IF L # <<>> /\ ~contains_garbage_text(L) THEN <<L, "fitz">>
        ELSE IF O # <<>> THEN <<O, "ocr">>
        ELSE <<(<<>>), FAILED_ALL_METHODS>>

\* C2: the result of process is the first of (V, "pdfplumber") for V non-empty
\* and not garbage, (L, "fitz") for L non-empty and not garbage, (O, "ocr")
\* for O non-empty (not gated), else ([], "FAILED_ALL_METHODS").
C2_ResultFunction ==
    pc = "done" => <<result.tables, result.extraction_status>> = C2_Expected

C2_Witness ==
    /\ pc = "done"
    /\ result.extraction_status = "fitz"
    /\ outs["pdfplumber"] # <<>>
    /\ result.tables = outs["fitz"]

\* C3 as stated: in a result whose status is not FAILED_ALL_METHODS no cell
\* contains "(cid:" or U+FFFD.
C3_NoArtifactUnlessFailed ==
    (pc = "done" /\ result.extraction_status # FAILED_ALL_METHODS)
        => \A cell \in Cells(result.tables) : ~ArtifactCell(cell)

\* C3 amended: in a result whose status is "pdfplumber" or "fitz" no cell
\* contains "(cid:" or U+FFFD.
C3_NoArtifactWhenGated ==
    (pc = "done" /\ result.extraction_status \in {"pdfplumber", "fitz"})
        => \A cell \in Cells(result.tables) : ~ArtifactCell(cell)

C3_Witness ==
    /\ pc = "done"
    /\ result.extraction_status = "fitz"
    /\ \E cell \in Cells(outs["pdfplumber"]) : ArtifactCell(cell)
    /\ Cells(result.tables) # {}

\* C4: in a result whose status is not FAILED_ALL_METHODS every table has at
\* least one row.
C4_NoZeroRowTable ==
    (pc = "done" /\ result.extraction_status # FAILED_ALL_METHODS)
        => \A t \in 1..Len(result.tables) : Len(result.tables[t]) >= 1

\* C5: for a document without words on any page whose vector extraction found
\* no tables, the result is ("ocr", O) if OCR returned a non-empty O and
\* ("FAILED_ALL_METHODS", []) otherwise; it is never "fitz".
C5_BlankDocumentGoesToOcr ==
    ( /\ pc = "done"
      /\ \A p \in 1..Len(pages) : pages[p] = <<>>
      /\ outs["pdfplumber"] = <<>> )
    => /\ result.extraction_status # "fitz"
       /\ outs["ocr"] # <<>> =>
             result.extraction_status = "ocr" /\ result.tables = outs["ocr"]
       /\ outs["ocr"] = <<>> =>
             result.extraction_status = FAILED_ALL_METHODS /\ result.tables = <<>>

\* C6: a strategy whose backend raised returns an empty list and process
\* goes on to return a result: the exception never reaches the caller.
C6_BackendFailuresCaught ==
    \A s \in raisedIn : pc # "raised" /\ outs[s] = <<>>

\* C7: for a missing file or an unsupported extension an error is raised
\* before any strategy is invoked; for every other input no error reaches the
\* caller.
C7_EagerInputErrors ==
    /\ file # "pdf" => calls = <<>>
    /\ file = "pdf" => pc # "raised"

\* C8: when a strategy has returned or raised, no document handle it opened
\* is still open.
C8_HandlesReleased ==
    pc \in {"try_layout", "try_ocr", "return", "done", "raised"} => handles = {}

\* C9: in every result, extraction_status is FAILED_ALL_METHODS exactly when
\* the table list is empty, it is one of the four status strings, and
\* table_count is the length of the table list.
C9_StatusMatchesTables ==
    pc = "done" =>
        /\ result.extraction_status \in
              {"pdfplumber", "fitz", "ocr", FAILED_ALL_METHODS}
        /\ result.extraction_status = FAILED_ALL_METHODS <=> result.tables = <<>>
        /\ result.table_count = Len(result.tables)

C9_Witness ==
    /\ pc = "done"
    /\ result.extraction_status = FAILED_ALL_METHODS
    /\ calls = <<"pdfplumber", "fitz", "ocr">>
    /\ raisedIn = {}

\* a letter of any alphabet
IsLetter(ch) == ch \in Lower \cup Upper \cup NonAsciiLetters

NonAlnumCount(cell) == Cardinality({i \in 1..Len(cell) : ~isalnum(cell[i])})

\* word-like as C10 states it: two consecutive letters
WordLikeLetters(cell) ==
    /\ cell # <<>>
    /\ 2 * NonAlnumCount(cell) <= Len(cell)
    /\ \E i \in 1..(Len(cell) - 1) : IsLetter(cell[i]) /\ IsLetter(cell[i + 1])

\* word-like with two consecutive letters of A-Z, a-z
WordLikeAscii(cell) ==
    /\ cell # <<>>
    /\ 2 * NonAlnumCount(cell) <= Len(cell)
    /\ \E i \in 1..(Len(cell) - 1) :
          IsAsciiLetter(cell[i]) /\ IsAsciiLetter(cell[i + 1])

GarbageBy(tbls, WordLike(_)) ==
    \/ \E cell \in Cells(tbls) : ArtifactCell(cell)
    \/ \E t \in 1..Len(tbls) : \E r \in 1..Len(tbls[t]) :
          Cardinality({c \in 1..Len(tbls[t][r]) : WordLike(tbls[t][r][c])}) < 2

IsLabelWord(cell) ==
    Len(cell) >= 2 /\ \A i \in 1..Len(cell) : IsAsciiLetter(cell[i])

\* a purely numeric word such as "8,223": digits with separators
IsNumericWord(cell) ==
    /\ \A i \in 1..Len(cell) : cell[i] \in Digits \cup {",", "."}
    /\ \E i \in 1..Len(cell) : cell[i] \in Digits

\* rows laid out as unruled numeric columns: a label word followed by one or
\* more purely numeric words
NumericColumns(tbls) ==
    /\ tbls # <<>>
    /\ \A t \in 1..Len(tbls) :
          /\ tbls[t] # <<>>
          /\ \A r \in 1..Len(tbls[t]) :
                LET row == tbls[t][r]
                IN  /\ Len(row) >= 2
                    /\ IsLabelWord(row[1])
                    /\ \A c \in 2..Len(row) : IsNumericWord(row[c])

\* C11: when pdfplumber returned no tables and PyMuPDF returned rows of a
\* label word followed by purely numeric words, without encoding artifacts,
\* OCR is not invoked and the result has status "fitz".
C11_NumericColumnsAcceptedFromLayout ==
    ( /\ Len(calls) >= 2
      /\ "fitz" \notin raisedIn
      /\ outs["pdfplumber"] = <<>>
      /\ NumericColumns(outs["fitz"]) )
    => /\ "ocr" \notin {calls[i] : i \in 1..Len(calls)}
       /\ pc = "done" => result.extraction_status = "fitz"

\* the entries of a page of OCR output that hold a recognised word
RecognisedWords(data) == {i \in 1..Len(data) : strip(data[i].text) # <<>>}

\* the number of recognised words in the fullest 10-pixel band of the page
LargestRowSize(data) ==
    LET I == RecognisedWords(data)
        sizes == { Cardinality({j \in I : y_rounded(data[j].top)
                                            = y_rounded(data[i].top)}) : i \in I }
    IN  IF I = {} THEN 0 ELSE CHOOSE m \in sizes : \A k \in sizes : m >= k

\* C12: the column count inferred for a page is min(8, max(2, words in the
\* page's largest row)) and lies in 2..8, whatever the number of words.
C12_ColumnCountClamped ==
    pc = "ocr_done" =>
        LET m == LargestRowSize(ocrIn)
        IN  /\ ocrOut.n_cols = (IF m < 2 THEN 2 ELSE IF m > 8 THEN 8 ELSE m)
            /\ ocrOut.n_cols \in 2..8

C12_Witness ==
    /\ pc = "ocr_done"
    /\ LargestRowSize(ocrIn) > 8
    /\ ocrOut.n_cols = 8
    /\ ocrOut.returned # <<>>

\* the equal-width bin of [min_x, max_x] that holds x, counted from 0; the
\* last bin includes max_x
BinOf(x, min_x, max_x, n) ==
    IF x = max_x THEN n - 1
    ELSE CHOOSE c \in 0..(n - 1) :
            /\ n * min_x + c * (max_x - min_x) <= n * x
            /\ n * x < n * min_x + (c + 1) * (max_x - min_x)

\* C13: in a row with at least n_cols words every word is placed in the bin
\* of [min_x, max_x] that contains its x, the word at max_x included, so a
\* word in an earlier cell never lies to the right of a word in a later cell.
C13_WordsInTheirBins ==
    pc = "ocr_done" =>
        \A k \in 1..Len(ocrOut.rows) :
            LET r == ocrOut.rows[k]
                n == ocrOut.n_cols
                xs == {r.row_sorted[i].x : i \in 1..Len(r.row_sorted)}
                min_x == CHOOSE a \in xs : \A b \in xs : a <= b
                max_x == CHOOSE a \in xs : \A b \in xs : a >= b
            IN  Len(r.row_sorted) >= n =>
                  /\ max_x > min_x =>
                        \A i \in 1..Len(r.row_sorted) :
                            r.col_idx[i] = BinOf(r.row_sorted[i].x, min_x, max_x, n)
                  /\ \A i, j \in 1..Len(r.row_sorted) :
                        r.col_idx[i] < r.col_idx[j] =>
                            r.row_sorted[i].x <= r.row_sorted[j].x

RECURSIVE Flatten(_)
Flatten(rows) == IF rows = <<>> THEN <<>> ELSE rows[1] \o Flatten(Tail(rows))

\* where on the page the word with this text is
IndexOfText(page, text) == CHOOSE i \in 1..Len(page) : page[i].text = text
WordOfText(page, text) == page[IndexOfText(page, text)]
RoundedY(page, text) == Round1(WordOfText(page, text).y0)

Dist(a, b) == IF a >= b THEN a - b ELSE b - a

\* C14: every page gives exactly one table; its rows, concatenated, are the
\* page's words in (round(y0,1), x0) order, each word once; no row is empty;
\* every word of a row has a rounded y within 1.5 of that of the row's first
\* word; the first word of each later row has a rounded y more than 1.5 away
\* from that of the previous row's first word.
C14_RowsPartitionSortedWords ==
    pc = "layout_done" =>
        /\ Len(layOut.returned) = Len(layIn)
        /\ \A p \in 1..Len(layIn) :
              LET page == layIn[p]
                  rows == layOut.returned[p]
                  flat == Flatten(rows)
              IN  /\ Len(flat) = Len(page)
                  /\ {flat[i] : i \in 1..Len(flat)} = {page[i].text : i \in 1..Len(page)}
                  /\ \A i, j \in 1..Len(flat) :
                        i < j =>
                          LET a == WordOfText(page, flat[i])
                              b == WordOfText(page, flat[j])
                          IN  \/ Round1(a.y0) < Round1(b.y0)
                              \/ Round1(a.y0) = Round1(b.y0) /\ a.x0 < b.x0
                              \/ /\ Round1(a.y0) = Round1(b.y0)
                                 /\ a.x0 = b.x0
                                 /\ IndexOfText(page, flat[i]) < IndexOfText(page, flat[j])
                  /\ \A r \in 1..Len(rows) : rows[r] # <<>>
                  /\ \A r \in 1..Len(rows) : \A c \in 1..Len(rows[r]) :
                        Dist(RoundedY(page, rows[r][c]), RoundedY(page, rows[r][1])) <= 15
                  /\ \A r \in 2..Len(rows) :
                        Dist(RoundedY(page, rows[r][1]), RoundedY(page, rows[r - 1][1])) > 15

C14_Witness ==
    /\ pc = "layout_done"
    /\ Len(layIn) = 2
    /\ Len(layIn[2]) = 3
    /\ Len(layOut.returned[2]) = 2
    /\ Len(layOut.returned[2][1]) = 2
    /\ RoundedY(layIn[2], layOut.returned[2][1][2]) = 103
    /\ RoundedY(layIn[2], layOut.returned[2][2][1]) = 116

\* C15: in every table rows appear top to bottom and within each row the
\* words appear in non-decreasing x0 order, for any word positions.
C15_RowsLeftToRight ==
    pc = "layout_done" =>
        \A p \in 1..Len(layIn) :
            LET page == layIn[p]
                rows == layOut.returned[p]
            IN  /\ \A r \in 2..Len(rows) :
                      RoundedY(page, rows[r - 1][1]) < RoundedY(page, rows[r][1])
                /\ \A r \in 1..Len(rows) : \A c \in 2..Len(rows[r]) :
                      WordOfText(page, rows[r][c - 1]).x0
                          <= WordOfText(page, rows[r][c]).x0

\* C16: for every word of every row the column search reads only bounds
\* that exist and ends at a column index in 0..n_cols-1, both in rows with
\* at least n_cols words (n_cols+1 bounds) and in rows with fewer (a bound
\* per word and a last bound), also with several words at one x; so a page
\* with recognised words never makes the extraction return an empty list.
C16_ColumnSearchInRange ==
    pc = "ocr_done" =>
        /\ ~ocrOut.raises
        /\ \A k \in 1..Len(ocrOut.rows) :
              LET r == ocrOut.rows[k]
                  n == ocrOut.n_cols
                  words == Len(r.row_sorted)
              IN  /\ Len(r.col_bounds) = (IF words >= n THEN n + 1 ELSE words + 1)
                  /\ \A i \in 1..words :
                        /\ r.col_idx[i] # IndexError
                        /\ r.col_idx[i] \in 0..(n - 1)
                        /\ r.col_idx[i] + 2 <= Len(r.col_bounds)
        /\ RecognisedWords(ocrIn) # {} => ocrOut.returned # <<>>

C16_Witness ==
    /\ pc = "ocr_done"
    /\ ~ocrOut.raises
    /\ \E k \in 1..Len(ocrOut.rows) :
          LET r == ocrOut.rows[k]
          IN  /\ Len(r.row_sorted) < ocrOut.n_cols
              /\ Len(r.row_sorted) >= 3
              /\ r.row_sorted[2].x = r.row_sorted[3].x
              /\ r.col_idx[3] = 2

=============================================================================
